---- MODULE Spec2Model ----
(***************************************************************************)
(* The IVR path model of R_Motors: the webhook receiver                    *)
(* (webhook_server.py) that folds one digit event per request into the     *)
(* ivr_inputs / ivr_paths tables of a shared SQLite file, and the          *)
(* dashboard side (ivr_database.py, app.py) that joins the path table with *)
(* call records and decodes each path into a label.                        *)
(*                                                                         *)
(* Python strings are sequences of one-character strings, so that strip,   *)
(* split and the SQL || concatenation act on characters.  None is the one  *)
(* value that is no string (Python None, SQL NULL, pandas NaN).  Step      *)
(* names and decoded labels are text that is only compared or              *)
(* concatenated, and are TLA+ strings.                                     *)
(***************************************************************************)
EXTENDS Integers, Sequences, FiniteSets, TLC

VARIABLES
    ivr_inputs,   \* committed rows of table ivr_inputs, in id order
    ivr_paths,    \* committed rows of table ivr_paths, in id order
    pending,      \* ivr_paths as seen inside the open write transaction
    lock,         \* handler holding SQLite's write lock, 0 when it is free
    pc,           \* pc[h]: where request handler h stands
    req,          \* req[h]: the parameters handler h extracted from its request
    existing,     \* existing[h]: whether the SELECT of update_ivr_path fetched a row
    resp,         \* resp[h]: the response handler h is about to return
    now,          \* CURRENT_TIMESTAMP, in seconds
    dash          \* the frame the dashboard renders, NoDash between runs

vars == <<ivr_inputs, ivr_paths, pending, lock, pc, req, existing, resp, now, dash>>

-----------------------------------------------------------------------------
(* Bounds of the model *)

NHandlers == 2
MaxInputs == 2
MaxSeqInputs == 3
MaxTime == 1

Handlers == 1..NHandlers

-----------------------------------------------------------------------------
(* Values *)

None == <<"None">>
Empty == <<>>
DQ == "\""
SQ == "'"

\* Python truthiness of an optional string: None and '' are falsy
Truthy(v) == v # None /\ v # Empty

\* Python `a or b`
PyOr(a, b) == IF Truthy(a) THEN a ELSE b

RECURSIVE LStrip(_, _)
LStrip(s, ch) == IF s # Empty /\ Head(s) = ch THEN LStrip(Tail(s), ch) ELSE s

RECURSIVE RStrip(_, _)
RStrip(s, ch) ==
    IF s # Empty /\ s[Len(s)] = ch THEN RStrip(SubSeq(s, 1, Len(s) - 1), ch) ELSE s

\* str.strip(ch) for a one-character ch
Strip(s, ch) == RStrip(LStrip(s, ch), ch)

\* if digit_input: digit_input = digit_input.strip('"').strip("'")
Clean(d) == IF Truthy(d) THEN Strip(Strip(d, DQ), SQ) ELSE d

\* The characters of s as one TLA+ string (an f-string's {s})
RECURSIVE Str(_)
Str(s) == IF s = Empty THEN "" ELSE Head(s) \o Str(Tail(s))

-----------------------------------------------------------------------------
(* The ivr_paths table *)

StepNames == <<"language", "state", "service", "model", "hp">>
ValidSteps == {StepNames[i] : i \in DOMAIN StepNames}

Column(step_name) == step_name \o "_choice"

Choices(row) ==
    <<row.language_choice, row.state_choice, row.service_choice,
      row.model_choice, row.hp_choice>>

Coalesce(v) == IF v = None THEN Empty ELSE v

\* COALESCE(language_choice, '') || '-' || ... || COALESCE(hp_choice, '')
CompletePath(row) ==
    Coalesce(row.language_choice) \o <<"-">> \o
    Coalesce(row.state_choice) \o <<"-">> \o
    Coalesce(row.service_choice) \o <<"-">> \o
    Coalesce(row.model_choice) \o <<"-">> \o
    Coalesce(row.hp_choice)

\* SELECT * FROM ivr_paths WHERE call_sid = ?   (all matching rows)
RowsOf(tbl, call_sid) == {i \in DOMAIN tbl : tbl[i].call_sid = call_sid}

\* cursor.fetchone(): the first matching row as <<row>>, or <<>> for None
FetchOne(tbl, call_sid) ==
    IF RowsOf(tbl, call_sid) = {} THEN <<>>
    ELSE <<tbl[CHOOSE i \in RowsOf(tbl, call_sid) :
                   \A j \in RowsOf(tbl, call_sid) : i <= j]>>

\* An UPDATE that fills the column only while it is NULL
UpdateChoiceKeepsFirst(tbl, call_sid, step_name, digit) ==
    [i \in DOMAIN tbl |->
        IF tbl[i].call_sid = call_sid /\ step_name \in ValidSteps
           /\ tbl[i][Column(step_name)] = None
        THEN [tbl[i] EXCEPT ![Column(step_name)] = digit]
        ELSE tbl[i]]

\* An UPDATE without its WHERE clause: every row takes the digit
UpdateChoiceAllRows(tbl, call_sid, step_name, digit) ==
    [i \in DOMAIN tbl |->
        IF step_name \in ValidSteps
        THEN [tbl[i] EXCEPT ![Column(step_name)] = digit]
        ELSE tbl[i]]

\* UPDATE ivr_paths SET <step>_choice = ? WHERE call_sid = ?
\* (no branch of the if/elif chain matches another step name)
UpdateChoice(tbl, call_sid, step_name, digit) ==
    [i \in DOMAIN tbl |->
        IF tbl[i].call_sid = call_sid /\ step_name \in ValidSteps
        THEN [tbl[i] EXCEPT ![Column(step_name)] = digit]
        ELSE tbl[i]]

\* The row of INSERT INTO ivr_paths (...): the step's column holds the digit,
\* the other choices and complete_path are NULL, timestamp takes its default
NewPathRow(id, call_sid, from_number, to_number, step_name, digit, ts) ==
    [id |-> id, call_sid |-> call_sid,
     from_number |-> from_number, to_number |-> to_number,
     language_choice |-> IF step_name = "language" THEN digit ELSE None,
     state_choice    |-> IF step_name = "state" THEN digit ELSE None,
     service_choice  |-> IF step_name = "service" THEN digit ELSE None,
     model_choice    |-> IF step_name = "model" THEN digit ELSE None,
     hp_choice       |-> IF step_name = "hp" THEN digit ELSE None,
     complete_path |-> None, timestamp |-> ts]

\* A table whose call_sid column carries no UNIQUE constraint
NoUniqueConstraint(tbl, call_sid) == FALSE

\* call_sid TEXT UNIQUE NOT NULL
ViolatesUnique(tbl, call_sid) == RowsOf(tbl, call_sid) # {}

InsertPath(tbl, call_sid, from_number, to_number, step_name, digit, ts) ==
    Append(tbl, NewPathRow(Len(tbl) + 1, call_sid, from_number, to_number,
                           step_name, digit, ts))

\* A recompute that fills complete_path only where it is still NULL
RecomputeNewRowsOnly(tbl, call_sid) ==
    [i \in DOMAIN tbl |->
        IF tbl[i].call_sid = call_sid /\ tbl[i].complete_path = None
        THEN [tbl[i] EXCEPT !.complete_path = CompletePath(tbl[i])]
        ELSE tbl[i]]

\* UPDATE ivr_paths SET complete_path = ... WHERE call_sid = ?
Recompute(tbl, call_sid) ==
    [i \in DOMAIN tbl |->
        IF tbl[i].call_sid = call_sid
        THEN [tbl[i] EXCEPT !.complete_path = CompletePath(tbl[i])]
        ELSE tbl[i]]

-----------------------------------------------------------------------------
(* The webhook handler: ivr_webhook, store_ivr_input, update_ivr_path *)

NoReq == [call_sid |-> None, step_name |-> "", digit_input |-> None,
          from_number |-> None, to_number |-> None]
NoResp == [status |-> 0, error |-> "", digit |-> None]

\* jsonify({'error': ...}), code   /   jsonify({'success': True, ..., 'digit': d}), 200
ErrorResponse(code, message) == [status |-> code, error |-> message, digit |-> None]
Success(digit) == [status |-> 200, error |-> "", digit |-> digit]

\* request.args.get(name) or request.form.get(name)
Param(rq, name) == PyOr(rq.query[name], rq.form[name])

Extract(rq) ==
    [call_sid |-> Param(rq, "CallSid"), step_name |-> rq.step_name,
     digit_input |-> Param(rq, "digits"),
     from_number |-> Param(rq, "From"), to_number |-> Param(rq, "To")]

\* The row store_ivr_input inserts; exophone is read from the To parameter too.
\* (The row's own timestamp column, which nothing reads, is left out.)
InputRow(id, r) ==
    [id |-> id, call_sid |-> r.call_sid, from_number |-> r.from_number,
     to_number |-> r.to_number, step_name |-> r.step_name,
     digit_input |-> Clean(r.digit_input),
     exophone |-> r.to_number, caller_circle |-> None]

\* A test that refuses only an absent CallSid (`if call_sid is None`)
RejectsOnlyAbsent(call_sid) == call_sid = None

\* if not call_sid: return jsonify({'error': 'CallSid is required'}), 400
RejectsCallSid(call_sid) == ~Truthy(call_sid)

\* The request is refused before anything is stored.
WebhookNoCallSid(h, rq) ==
    /\ pc[h] = "idle"
    /\ ~dash.rendered
    /\ RejectsCallSid(Extract(rq).call_sid)
    /\ pc' = [pc EXCEPT ![h] = "done"]
    /\ req' = [req EXCEPT ![h] = Extract(rq)]
    /\ resp' = [resp EXCEPT ![h] = ErrorResponse(400, "CallSid is required")]
    /\ UNCHANGED <<ivr_inputs, ivr_paths, pending, lock, existing, now, dash>>

\* The parameters are read and store_ivr_input inserts and commits the raw row.
WebhookStore(h, rq, cap) ==
    /\ pc[h] = "idle"
    /\ ~dash.rendered
    /\ ~RejectsCallSid(Extract(rq).call_sid)
    /\ lock = 0
    /\ Len(ivr_inputs) < cap
    /\ ivr_inputs' = Append(ivr_inputs, InputRow(Len(ivr_inputs) + 1, Extract(rq)))
    /\ pc' = [pc EXCEPT ![h] = "select"]
    /\ req' = [req EXCEPT ![h] = Extract(rq)]
    /\ UNCHANGED <<ivr_paths, pending, lock, existing, resp, now, dash>>

\* Another connection holds the write lock for longer than the busy timeout:
\* the INSERT of store_ivr_input raises "database is locked", answered 500.
WebhookStoreLocked(h, rq) ==
    /\ pc[h] = "idle"
    /\ ~dash.rendered
    /\ ~RejectsCallSid(Extract(rq).call_sid)
    /\ lock # 0
    /\ pc' = [pc EXCEPT ![h] = "done"]
    /\ req' = [req EXCEPT ![h] = Extract(rq)]
    /\ resp' = [resp EXCEPT ![h] = ErrorResponse(500, "database is locked")]
    /\ UNCHANGED <<ivr_inputs, ivr_paths, pending, lock, existing, now, dash>>

\* cursor.execute("SELECT * FROM ivr_paths WHERE call_sid = ?"); fetchone()
\* runs outside any transaction and reads the committed table.
SelectExisting(h) ==
    /\ pc[h] = "select"
    /\ ~dash.rendered
    /\ existing' = [existing EXCEPT ![h] = FetchOne(ivr_paths, req[h].call_sid) # <<>>]
    /\ pc' = [pc EXCEPT ![h] = "write"]
    /\ UNCHANGED <<ivr_inputs, ivr_paths, pending, lock, req, resp, now, dash>>

\* A write whose UPDATE branch also sets timestamp = CURRENT_TIMESTAMP
WrittenStampsUpdate(tbl, ex, r, ts) ==
    IF ex
    THEN [i \in DOMAIN tbl |->
            IF tbl[i].call_sid = r.call_sid
            THEN [UpdateChoice(tbl, r.call_sid, r.step_name, Clean(r.digit_input))[i]
                      EXCEPT !.timestamp = ts]
            ELSE tbl[i]]
    ELSE InsertPath(tbl, r.call_sid, r.from_number, r.to_number,
                    r.step_name, Clean(r.digit_input), ts)

\* A write whose UPDATE branch also sets from_number and to_number
WrittenUpdatesNumbers(tbl, ex, r, ts) ==
    IF ex
    THEN [i \in DOMAIN tbl |->
            IF tbl[i].call_sid = r.call_sid
            THEN [UpdateChoice(tbl, r.call_sid, r.step_name, Clean(r.digit_input))[i]
                      EXCEPT !.from_number = r.from_number,
                             !.to_number = r.to_number]
            ELSE tbl[i]]
    ELSE InsertPath(tbl, r.call_sid, r.from_number, r.to_number,
                    r.step_name, Clean(r.digit_input), ts)

\* The table after the UPDATE or INSERT of update_ivr_path
Written(tbl, ex, r, ts) ==
    IF ex
    THEN UpdateChoice(tbl, r.call_sid, r.step_name, Clean(r.digit_input))
    ELSE InsertPath(tbl, r.call_sid, r.from_number, r.to_number,
                    r.step_name, Clean(r.digit_input), ts)

\* A write on a connection in autocommit mode: visible before the recompute
WritePathAutocommit(h) ==
    /\ pc[h] = "write"
    /\ ~dash.rendered
    /\ lock = 0
    /\ ~(~existing[h] /\ ViolatesUnique(ivr_paths, req[h].call_sid))
    /\ pending' = Written(ivr_paths, existing[h], req[h], now)
    /\ ivr_paths' = pending'
    /\ lock' = h
    /\ pc' = [pc EXCEPT ![h] = "recompute"]
    /\ UNCHANGED <<ivr_inputs, req, existing, resp, now, dash>>

\* The first write statement opens the transaction and takes the write lock.
WritePath(h) ==
    /\ pc[h] = "write"
    /\ ~dash.rendered
    /\ lock = 0
    /\ ~(~existing[h] /\ ViolatesUnique(ivr_paths, req[h].call_sid))
    /\ pending' = Written(ivr_paths, existing[h], req[h], now)
    /\ lock' = h
    /\ pc' = [pc EXCEPT ![h] = "recompute"]
    /\ UNCHANGED <<ivr_inputs, ivr_paths, req, existing, resp, now, dash>>

\* The INSERT meets a row another request committed after this one's SELECT:
\* IntegrityError.  The transaction stays open until the handler returns.
WritePathIntegrityError(h) ==
    /\ pc[h] = "write"
    /\ ~dash.rendered
    /\ lock = 0
    /\ ~existing[h]
    /\ ViolatesUnique(ivr_paths, req[h].call_sid)
    /\ lock' = h
    /\ pc' = [pc EXCEPT ![h] = "done"]
    /\ resp' = [resp EXCEPT ![h] =
                    ErrorResponse(500, "UNIQUE constraint failed: ivr_paths.call_sid")]
    /\ UNCHANGED <<ivr_inputs, ivr_paths, pending, req, existing, now, dash>>

\* The write statement waits for the lock beyond the busy timeout.
WritePathLocked(h) ==
    /\ pc[h] = "write"
    /\ ~dash.rendered
    /\ lock # 0
    /\ pc' = [pc EXCEPT ![h] = "done"]
    /\ resp' = [resp EXCEPT ![h] = ErrorResponse(500, "database is locked")]
    /\ UNCHANGED <<ivr_inputs, ivr_paths, pending, lock, req, existing, now, dash>>

\* "Update complete path", inside the same transaction
RecomputePath(h) ==
    /\ pc[h] = "recompute"
    /\ ~dash.rendered
    /\ pending' = Recompute(pending, req[h].call_sid)
    /\ pc' = [pc EXCEPT ![h] = "commit"]
    /\ UNCHANGED <<ivr_inputs, ivr_paths, lock, req, existing, resp, now, dash>>

\* conn.commit(); the handler then builds its 200 response, echoing the raw digit
Commit(h) ==
    /\ pc[h] = "commit"
    /\ ~dash.rendered
    /\ ivr_paths' = pending
    /\ lock' = 0
    /\ pc' = [pc EXCEPT ![h] = "done"]
    /\ resp' = [resp EXCEPT ![h] = Success(req[h].digit_input)]
    /\ UNCHANGED <<ivr_inputs, pending, req, existing, now, dash>>

\* The response leaves; a connection left open by an exception is collected,
\* which rolls its transaction back.
Return(h) ==
    /\ pc[h] = "done"
    /\ ~dash.rendered
    /\ pc' = [pc EXCEPT ![h] = "idle"]
    /\ req' = [req EXCEPT ![h] = NoReq]
    /\ existing' = [existing EXCEPT ![h] = FALSE]
    /\ resp' = [resp EXCEPT ![h] = NoResp]
    /\ lock' = IF lock = h THEN 0 ELSE lock
    /\ pending' = IF lock = h THEN ivr_paths ELSE pending
    /\ UNCHANGED <<ivr_inputs, ivr_paths, now, dash>>

\* A second passes
Tick ==
    /\ now < MaxTime
    /\ ~dash.rendered
    /\ now' = now + 1
    /\ UNCHANGED <<ivr_inputs, ivr_paths, pending, lock, pc, req, existing, resp, dash>>

-----------------------------------------------------------------------------
(* The path codec: get_ivr_label *)

\* str.split(sep) for a one-character sep
RECURSIVE Split(_, _)
Split(s, sep) ==
    IF \A i \in DOMAIN s : s[i] # sep THEN <<s>>
    ELSE LET k == CHOOSE i \in DOMAIN s :
                      s[i] = sep /\ \A j \in 1..(i - 1) : s[j] # sep
         IN <<SubSeq(s, 1, k - 1)>> \o Split(SubSeq(s, k + 1, Len(s)), sep)

\* dict.get(key, default)
Get(map, key, default) == IF key \in DOMAIN map THEN map[key] ELSE default

LangLabels == (<<"1">> :> "Hindi") @@ (<<"2">> :> "English")
StateLabels == (<<"1">> :> "Rajasthan") @@ (<<"2">> :> "MP") @@
               (<<"3">> :> "Maharashtra") @@ (<<"4">> :> "Other State")
ServiceLabels == (<<"1">> :> "Sell Machine") @@ (<<"2">> :> "Buy Old") @@
                 (<<"3">> :> "Buy New") @@ (<<"4">> :> "Finance") @@
                 (<<"5">> :> "Other Info") @@ (<<"9">> :> "Consultant")
BuyOldLabels == (<<"1">> :> "2020+") @@ (<<"2">> :> "2018-2020") @@
                (<<"3">> :> "2015-2017") @@ (<<"4">> :> "Before 2014")
\* A sell table in the order of the buy table
SellLabelsNewestFirst == (<<"1">> :> "2020+") @@ (<<"2">> :> "2018-2020") @@
                         (<<"3">> :> "2015-2017") @@ (<<"4">> :> "Before 2014")
SellLabels == (<<"1">> :> "Before 2014") @@ (<<"2">> :> "2015-2017") @@
              (<<"3">> :> "2018-2020") @@ (<<"4">> :> "2020+")
FinanceLabels == (<<"1">> :> "Refinance") @@ (<<"2">> :> "New Finance")
HpLabels == (<<"1">> :> "49 HP") @@ (<<"2">> :> "74 HP")

\* A default that names the step and leaves the digit out
FallbackDropsDigit(prefix, segment) == prefix

\* The default of each lookup: f'Lang-{parts[0]}', f'State-{parts[1]}', ...
Fallback(prefix, segment) == prefix \o "-" \o Str(segment)

\* The tokens get_ivr_label appends to labels, in order
LabelTokens(parts) ==
    (IF Len(parts) >= 1
     THEN <<Get(LangLabels, parts[1], Fallback("Lang", parts[1]))>> ELSE <<>>)
    \o
    (IF Len(parts) >= 2
     THEN <<Get(StateLabels, parts[2], Fallback("State", parts[2]))>> ELSE <<>>)
    \o
    (IF Len(parts) >= 3
     THEN <<Get(ServiceLabels, parts[3], Fallback("Service", parts[3]))>> ELSE <<>>)
    \o
    (IF Len(parts) >= 4
     THEN IF parts[3] = <<"2">>
          THEN <<Get(BuyOldLabels, parts[4], Fallback("Model", parts[4]))>>
          ELSE IF parts[3] = <<"1">>
          THEN <<Get(SellLabels, parts[4], Fallback("Model", parts[4]))>>
          ELSE IF parts[3] = <<"4">>
          THEN <<Get(FinanceLabels, parts[4], Fallback("Finance", parts[4]))>>
          ELSE <<>>
     ELSE <<>>)
    \o
    (IF Len(parts) >= 5 /\ parts[3] = <<"2">> /\ parts[4] = <<"1">>
     THEN <<Get(HpLabels, parts[5], Fallback("HP", parts[5]))>> ELSE <<>>)

\* ' → '.join(labels)
RECURSIVE JoinArrow(_)
JoinArrow(labels) ==
    IF labels = <<>> THEN ""
    ELSE IF Len(labels) = 1 THEN labels[1]
    ELSE labels[1] \o " → " \o JoinArrow(Tail(labels))

\* A decoder that reads the hp segment under every service and model
get_ivr_label_hp_always(path) ==
    IF ~Truthy(path) THEN "No IVR"
    ELSE LET parts == Split(path, "-")
         IN JoinArrow(LabelTokens(parts) \o
                (IF Len(parts) >= 5 /\ ~(parts[3] = <<"2">> /\ parts[4] = <<"1">>)
                 THEN <<Get(HpLabels, parts[5], Fallback("HP", parts[5]))>>
                 ELSE <<>>))

get_ivr_label(path) ==
    IF ~Truthy(path) THEN "No IVR"
    ELSE JoinArrow(LabelTokens(Split(path, "-")))

-----------------------------------------------------------------------------
(* The Call/IVR merge: IVRDatabase.merge_with_call_data, and the            *)
(* dashboard's 'Path Description' column                                   *)

\* The value of an IVRSelections cell that holds None instead of a list
NoList == <<None>>

\* [x for x in [language_choice, ..., hp_choice] if pd.notna(x)]
RECURSIVE NotNa(_)
NotNa(cs) ==
    IF cs = <<>> THEN <<>>
    ELSE IF Head(cs) # None THEN <<Head(cs)>> \o NotNa(Tail(cs))
    ELSE NotNa(Tail(cs))

\* A cell that is None whenever the list of selections would be empty
SelectionsEmptyAsNone(row) ==
    IF row.complete_path # None /\ NotNa(Choices(row)) # <<>>
    THEN NotNa(Choices(row)) ELSE NoList

\* ... if pd.notna(row.get('complete_path')) else None
Selections(row) ==
    IF row.complete_path # None THEN NotNa(Choices(row)) ELSE NoList

\* The rows the left join on CallSid = call_sid gives one call record: one per
\* matching path row, or one with every ivr column NaN
RECURSIVE Matches(_, _, _)
Matches(tbl, call_sid, i) ==
    IF i > Len(tbl) THEN <<>>
    ELSE (IF tbl[i].call_sid = call_sid
          THEN <<[CallSid |-> call_sid, IVRPath |-> tbl[i].complete_path,
                  IVRSelections |-> Selections(tbl[i])]>>
          ELSE <<>>) \o Matches(tbl, call_sid, i + 1)

\* A row without a path record whose selections are an empty list
UnmatchedEmptyList(call_sid) ==
    [CallSid |-> call_sid, IVRPath |-> None, IVRSelections |-> <<>>]

Unmatched(call_sid) ==
    [CallSid |-> call_sid, IVRPath |-> None, IVRSelections |-> NoList]

\* An inner join: a call record without a path row gives no row
InnerJoin(tbl, call_sid) == Matches(tbl, call_sid, 1)

\* call_df.merge(ivr_df[...], left_on='CallSid', right_on='call_sid', how='left')
LeftJoin(tbl, call_sid) ==
    IF Matches(tbl, call_sid, 1) = <<>> THEN <<Unmatched(call_sid)>>
    ELSE Matches(tbl, call_sid, 1)

\* The frame merge_with_call_data returns, as its CallSid, IVRPath and
\* IVRSelections columns
RECURSIVE merge_with_call_data(_, _)
merge_with_call_data(tbl, call_df) ==
    IF call_df = <<>> THEN <<>>
    ELSE (IF tbl = <<>>                      \* if ivr_df.empty
          THEN <<Unmatched(Head(call_df))>>
          ELSE LeftJoin(tbl, Head(call_df)))
         \o merge_with_call_data(tbl, Tail(call_df))

\* raw_ivr_display['Path Description'] = raw_ivr_display['IVRPath'].apply(get_ivr_label)
\* over ivr_data = df[df['IVRPath'].notna()]
RECURSIVE PathDescriptions(_)
PathDescriptions(df) ==
    IF df = <<>> THEN <<>>
    ELSE (IF Head(df).IVRPath # None
          THEN <<[CallSid |-> Head(df).CallSid, IVRPath |-> Head(df).IVRPath,
                  Label |-> get_ivr_label(Head(df).IVRPath)]>>
          ELSE <<>>) \o PathDescriptions(Tail(df))

NoDash == [rendered |-> FALSE, df |-> <<>>, ivr_data |-> <<>>]

\* One run of the dashboard script over the call records call_df: the merge
\* reads the committed ivr_paths table.
RenderDashboard(call_df) ==
    /\ ~dash.rendered
    /\ dash' = [rendered |-> TRUE,
                df |-> merge_with_call_data(ivr_paths, call_df),
                ivr_data |-> PathDescriptions(merge_with_call_data(ivr_paths, call_df))]
    /\ UNCHANGED <<ivr_inputs, ivr_paths, pending, lock, pc, req, existing, resp, now>>

\* The rendered page is discarded; the next run starts from the store.
Rerun ==
    /\ dash.rendered
    /\ dash' = NoDash
    /\ UNCHANGED <<ivr_inputs, ivr_paths, pending, lock, pc, req, existing, resp, now>>

-----------------------------------------------------------------------------
(* The IVR charts of the dashboard: create_ivr_flow_chart,                  *)
(* create_ivr_funnel, create_ivr_first_option_pie,                          *)
(* create_ivr_completion_rate.  A figure is its kind, its title or          *)
(* annotation text, and its category labels y with their values x.          *)

\* go.Figure() with the annotation "No IVR data available"
Placeholder ==
    [kind |-> "annotation", text |-> "No IVR data available", y |-> <<>>, x |-> <<>>]

\* df[df['IVRPath'].notna()]
WithPath(df) == SelectSeq(df, LAMBDA r : r.IVRPath # None)

\* A filter that keeps every row, None cells included
WithEveryRow(df) == df

\* df[df['IVRSelections'].notna()]
WithSelections(df) == SelectSeq(df, LAMBDA r : r.IVRSelections # NoList)

\* A level count that takes the rows with exactly k selections
Exactly(ivr_data, k) ==
    Cardinality({i \in DOMAIN ivr_data : Len(ivr_data[i].IVRSelections) = k})

\* len(ivr_data[ivr_data['IVRSelections'].apply(lambda x: len(x) >= k)])
AtLeast(ivr_data, k) ==
    Cardinality({i \in DOMAIN ivr_data : Len(ivr_data[i].IVRSelections) >= k})

\* The distinct values of a column, in order of first appearance
RECURSIVE Distinct(_)
Distinct(vals) ==
    IF vals = <<>> THEN <<>>
    ELSE LET rest == Distinct(SubSeq(vals, 1, Len(vals) - 1))
             last == vals[Len(vals)]
         IN IF \E i \in DOMAIN rest : rest[i] = last THEN rest ELSE Append(rest, last)

Count(vals, v) == Cardinality({i \in DOMAIN vals : vals[i] = v})

\* keys by descending count, equal counts in their given order
RECURSIVE ByCount(_, _)
ByCount(keys, vals) ==
    IF keys = <<>> THEN <<>>
    ELSE LET k == CHOOSE i \in DOMAIN keys :
                      /\ \A j \in DOMAIN keys : Count(vals, keys[j]) <= Count(vals, keys[i])
                      /\ \A j \in 1..(i - 1) : Count(vals, keys[j]) < Count(vals, keys[i])
         IN <<keys[k]>> \o
            ByCount(SubSeq(keys, 1, k - 1) \o SubSeq(keys, k + 1, Len(keys)), vals)

\* Series.value_counts(): <<value, count>> pairs, NaN/None left out, most frequent
\* first (vals holds no None here: the callers drop them)
ValueCounts(vals) ==
    [i \in DOMAIN ByCount(Distinct(vals), vals) |->
        <<ByCount(Distinct(vals), vals)[i], Count(vals, ByCount(Distinct(vals), vals)[i])>>]

\* .head(n)
Head_n(s, n) == SubSeq(s, 1, IF Len(s) < n THEN Len(s) ELSE n)

TopPaths == 10

create_ivr_flow_chart(df) ==
    LET ivr_data == WithPath(df)
        path_counts == Head_n(ValueCounts([i \in DOMAIN ivr_data |-> ivr_data[i].IVRPath]),
                              TopPaths)
    IN IF Len(ivr_data) = 0 THEN Placeholder
       ELSE [kind |-> "bar", text |-> "Top 10 IVR Paths Selected",
             y |-> [i \in DOMAIN path_counts |-> get_ivr_label(path_counts[i][1])],
             x |-> [i \in DOMAIN path_counts |-> path_counts[i][2]]]

create_ivr_funnel(df) ==
    LET ivr_data == WithSelections(df)
    IN IF Len(ivr_data) = 0 THEN Placeholder
       ELSE [kind |-> "funnel", text |-> "IVR Navigation Funnel",
             y |-> <<"Entered IVR", "Level 1 Selection", "Level 2 Selection",
                     "Level 3 Selection">>,
             x |-> <<Len(ivr_data), AtLeast(ivr_data, 1), AtLeast(ivr_data, 2),
                     AtLeast(ivr_data, 3)>>]

\* x[0] if x and len(x) > 0 else None, with the None cells dropped
RECURSIVE FirstOptions(_)
FirstOptions(ivr_data) ==
    IF ivr_data = <<>> THEN <<>>
    ELSE (IF Head(ivr_data).IVRSelections # <<>>
          THEN <<Head(ivr_data).IVRSelections[1]>> ELSE <<>>)
         \o FirstOptions(Tail(ivr_data))

\* option_labels.get(opt, f'Option {opt}')
OptionLabel(opt) ==
    IF opt = <<"1">> THEN "Hindi (1)"
    ELSE IF opt = <<"2">> THEN "English (2)"
    ELSE "Option " \o Str(opt)

create_ivr_first_option_pie(df) ==
    LET ivr_data == WithSelections(df)
        first_option_counts == ValueCounts(FirstOptions(ivr_data))
    IN IF Len(ivr_data) = 0 THEN Placeholder
       ELSE [kind |-> "pie", text |-> "First IVR Option Selected",
             y |-> [i \in DOMAIN first_option_counts |->
                       OptionLabel(first_option_counts[i][1])],
             x |-> [i \in DOMAIN first_option_counts |-> first_option_counts[i][2]]]

create_ivr_completion_rate(df) ==
    LET ivr_data == WithSelections(df)
        no_ivr == Len(df) - Len(ivr_data)
        completed == AtLeast(ivr_data, 2)
        dropped == Cardinality({i \in DOMAIN ivr_data : Len(ivr_data[i].IVRSelections) < 2})
    IN IF Len(ivr_data) = 0 THEN Placeholder
       ELSE [kind |-> "bar", text |-> "IVR Completion Analysis",
             y |-> <<"Completed IVR", "Dropped Early", "No IVR Interaction">>,
             x |-> <<completed, dropped, no_ivr>>]

\* The four IVR charts of one run, over the frame df
RenderCharts(df) ==
    /\ ~dash.rendered
    /\ dash' = [rendered |-> TRUE, df |-> df, ivr_data |-> PathDescriptions(df),
                charts |-> [flow       |-> create_ivr_flow_chart(df),
                            funnel     |-> create_ivr_funnel(df),
                            first      |-> create_ivr_first_option_pie(df),
                            completion |-> create_ivr_completion_rate(df)]]
    /\ UNCHANGED <<ivr_inputs, ivr_paths, pending, lock, pc, req, existing, resp, now>>

-----------------------------------------------------------------------------
(* The path listing: IVRDatabase.get_ivr_paths and GET /api/ivr/paths *)

\* Instants of a day the clock has, and the last day of the calendar
DayLen == 2
MaxDay == 2

\* The characters of dates and timestamps, in the order of their codes
Ascii == <<" ", "-", "0", "1", "2", "3", "4", "5", "6", "7", "8", "9", ":">>
Ord(ch) == CHOOSE i \in DOMAIN Ascii : Ascii[i] = ch

\* Two decimal digits
Digit2(n) == <<Ascii[(n \div 10) + 3], Ascii[(n % 10) + 3]>>

\* 'YYYY-MM-DD' of day number day
DateString(day) == <<"2", "0", "2", "4", "-", "0", "1", "-">> \o Digit2(day + 1)

\* CURRENT_TIMESTAMP at clock reading ts: 'YYYY-MM-DD HH:MM:SS'
TimestampString(ts) ==
    DateString(ts \div DayLen) \o <<" ">> \o Digit2(ts % DayLen)
        \o <<":", "0", "0", ":", "0", "0">>

\* DATE(timestamp) of a timestamp text
Date(text) == SubSeq(text, 1, 10)

\* a <= b between two TEXT values (byte order; a prefix sorts first)
RECURSIVE TextLeq(_, _)
TextLeq(a, b) ==
    IF a = <<>> THEN TRUE
    ELSE IF b = <<>> THEN FALSE
    ELSE IF Head(a) = Head(b) THEN TextLeq(Tail(a), Tail(b))
    ELSE Ord(Head(a)) < Ord(Head(b))

\* WHERE 1=1 [AND DATE(timestamp) >= ?] [AND DATE(timestamp) <= ?]
DatabaseWhere(tbl, start_date, end_date) ==
    {i \in DOMAIN tbl :
        /\ Truthy(start_date) =>
              TextLeq(start_date, Date(TimestampString(tbl[i].timestamp)))
        /\ Truthy(end_date) =>
              TextLeq(Date(TimestampString(tbl[i].timestamp)), end_date)}

\* WHERE 1=1 [AND timestamp >= ?] [AND timestamp <= ?]
EndpointWhere(tbl, start_date, end_date) ==
    {i \in DOMAIN tbl :
        /\ Truthy(start_date) =>
              TextLeq(start_date, TimestampString(tbl[i].timestamp))
        /\ Truthy(end_date) =>
              TextLeq(TimestampString(tbl[i].timestamp), end_date)}

\* ORDER BY timestamp DESC: every order of the selected rows that has no
\* earlier timestamp before a later one
OrderByTimestampDesc(tbl, sel) ==
    {[k \in DOMAIN o |-> tbl[o[k]]] :
        o \in {q \in [1..Cardinality(sel) -> sel] :
                  /\ \A j, k \in DOMAIN q : j # k => q[j] # q[k]
                  /\ \A j, k \in DOMAIN q :
                        j < k => TextLeq(TimestampString(tbl[q[k]].timestamp),
                                         TimestampString(tbl[q[j]].timestamp))}}

\* One call of IVRDatabase.get_ivr_paths and one GET /api/ivr/paths with the
\* same start_date and end_date, over the committed table
ListPaths(start_date, end_date) ==
    /\ ~dash.rendered
    /\ \E db \in OrderByTimestampDesc(ivr_paths,
                    DatabaseWhere(ivr_paths, start_date, end_date)),
          api \in OrderByTimestampDesc(ivr_paths,
                    EndpointWhere(ivr_paths, start_date, end_date)) :
          dash' = [rendered |-> TRUE, df |-> <<>>, ivr_data |-> <<>>,
                   start_date |-> start_date, end_date |-> end_date,
                   database |-> db,
                   endpoint |-> [success |-> TRUE, count |-> Len(api), data |-> api]]
    /\ UNCHANGED <<ivr_inputs, ivr_paths, pending, lock, pc, req, existing, resp, now>>

-----------------------------------------------------------------------------
(* The statistics: IVRDatabase.get_ivr_stats and GET /api/ivr/stats *)

\* SELECT COUNT(DISTINCT call_sid) FROM ivr_inputs
TotalCalls(inputs) == Cardinality({inputs[i].call_sid : i \in DOMAIN inputs})

\* SELECT col, COUNT(*) ... GROUP BY col over the rows in sel: the set of
\* <<value, count>>
GroupBy(tbl, sel, col) ==
    {<<v, Cardinality({i \in sel : tbl[i][col] = v})>> : v \in {tbl[i][col] : i \in sel}}

\* WHERE complete_path IS NOT NULL AND complete_path != '----'
DatabasePathRows(tbl) ==
    {i \in DOMAIN tbl :
        tbl[i].complete_path # None /\ tbl[i].complete_path # <<"-", "-", "-", "-">>}

\* WHERE complete_path IS NOT NULL
EndpointPathRows(tbl) == {i \in DOMAIN tbl : tbl[i].complete_path # None}

\* ORDER BY count DESC: every order of the groups that has no smaller count
\* before a larger one
OrderByCountDesc(groups) ==
    {o \in [1..Cardinality(groups) -> groups] :
        /\ \A j, k \in DOMAIN o : j # k => o[j] # o[k]
        /\ \A j, k \in DOMAIN o : j < k => o[j][2] >= o[k][2]}

\* LIMIT 10
StatsLimit == 10
Limit(rows, n) == IF Len(rows) <= n THEN rows ELSE SubSeq(rows, 1, n)

\* CASE col WHEN '1' THEN ... ELSE col END
Case(value, labels) == IF value \in DOMAIN labels THEN labels[value] ELSE Str(value)

DbLanguages == (<<"1">> :> "Hindi") @@ (<<"2">> :> "English")
DbStates == (<<"1">> :> "Rajasthan") @@ (<<"2">> :> "Maharashtra") @@
            (<<"3">> :> "Karnataka") @@ (<<"4">> :> "Delhi")

\* A distribution over one choice column, WHERE col IS NOT NULL, as the set of
\* its rows
Distribution(tbl, col, labels) ==
    {<<Case(g[1], labels), g[2]>> :
        g \in GroupBy(tbl, {i \in DOMAIN tbl : tbl[i][col] # None}, col)}

\* One call of IVRDatabase.get_ivr_stats and one GET /api/ivr/stats over the
\* committed tables
Stats ==
    /\ ~dash.rendered
    /\ \E db \in OrderByCountDesc(GroupBy(ivr_paths, DatabasePathRows(ivr_paths),
                                          "complete_path")),
          api \in OrderByCountDesc(GroupBy(ivr_paths, EndpointPathRows(ivr_paths),
                                           "complete_path")) :
          dash' = [rendered |-> TRUE, df |-> <<>>, ivr_data |-> <<>>,
                   database |->
                     [total_calls |-> TotalCalls(ivr_inputs),
                      top_paths |-> Limit(db, StatsLimit),
                      language_distribution |->
                          Distribution(ivr_paths, "language_choice", DbLanguages),
                      state_distribution |->
                          Distribution(ivr_paths, "state_choice", DbStates),
                      service_distribution |->
                          Distribution(ivr_paths, "service_choice", <<>>)],
                   endpoint |->
                     [total_calls |-> TotalCalls(ivr_inputs),
                      top_paths |->
                          [k \in DOMAIN Limit(api, StatsLimit) |->
                              [path |-> Limit(api, StatsLimit)[k][1],
                               count |-> Limit(api, StatsLimit)[k][2]]],
                      language_distribution |->
                          {[language |-> Str(g[1]), count |-> g[2]] :
                              g \in GroupBy(ivr_paths,
                                            {i \in DOMAIN ivr_paths :
                                                ivr_paths[i].language_choice # None},
                                            "language_choice")}]]
    /\ UNCHANGED <<ivr_inputs, ivr_paths, pending, lock, pc, req, existing, resp, now>>

-----------------------------------------------------------------------------
(* Requests and call records the environment supplies *)

CallA == <<"A">>
CallB == <<"B">>
CallX == <<"X">>      \* a call of the call log that never reached the IVR
Caller == <<"9", "1">>
Exophone == <<"8", "0">>

\* A request: the step name of the URL, and the query and form parameters.
\* sid, digits: <<query value, form value>>; nums: <<query From, query To,
\* form From, form To>>
Requests(steps, sids, digits, nums) ==
    {[step_name |-> st,
      query |-> [CallSid |-> s[1], digits |-> d[1], From |-> n[1], To |-> n[2]],
      form  |-> [CallSid |-> s[2], digits |-> d[2], From |-> n[3], To |-> n[4]]] :
        st \in steps, s \in sids, d \in digits, n \in nums}

\* A request that carries no usable CallSid: absent, or empty in both places
NoSidRequests ==
    Requests({"language"}, {<<None, None>>, <<Empty, Empty>>},
             {<<<<"1">>, None>>}, {<<Caller, Exophone, None, None>>})

\* Requests of the concurrent specification: call A at two steps of the tree
\* and at a step the tree does not have, call B (its CallSid in the form
\* body) at one step; the digit arrives quoted
ConcRequests ==
    Requests({"language", "state", "bogus"}, {<<CallA, None>>},
             {<<<<DQ, "1", DQ>>, None>>}, {<<Caller, Exophone, None, None>>})
    \cup
    Requests({"language"}, {<<Empty, CallB>>},
             {<<<<DQ, "1", DQ>>, None>>}, {<<Caller, Exophone, None, None>>})
    \cup NoSidRequests

\* Requests of the sequential specification: one call, every step of the tree,
\* a plain digit, a quoted digit in the form body
SeqRequests ==
    Requests(ValidSteps,
             {<<CallA, None>>},
             {<<<<"1">>, None>>, <<None, <<SQ, "2", SQ>>>>},
             {<<Caller, Exophone, None, None>>})
    \cup NoSidRequests

\* The call log the dashboard merges with
CallFrames == {<<CallA, CallX, CallB>>}

-----------------------------------------------------------------------------
(* Specifications *)

Init ==
    /\ ivr_inputs = <<>>
    /\ ivr_paths = <<>>
    /\ pending = <<>>
    /\ lock = 0
    /\ pc = [h \in Handlers |-> "idle"]
    /\ req = [h \in Handlers |-> NoReq]
    /\ existing = [h \in Handlers |-> FALSE]
    /\ resp = [h \in Handlers |-> NoResp]
    /\ now = 0
    /\ dash = NoDash

\* Concurrent request handlers on one database file
Next ==
    \/ \E h \in Handlers, rq \in ConcRequests : WebhookNoCallSid(h, rq)
    \/ \E h \in Handlers, rq \in ConcRequests : WebhookStore(h, rq, MaxInputs)
    \/ \E h \in Handlers, rq \in ConcRequests : WebhookStoreLocked(h, rq)
    \/ \E h \in Handlers : SelectExisting(h)
    \/ \E h \in Handlers : WritePath(h)
    \/ \E h \in Handlers : WritePathIntegrityError(h)
    \/ \E h \in Handlers : WritePathLocked(h)
    \/ \E h \in Handlers : RecomputePath(h)
    \/ \E h \in Handlers : Commit(h)
    \/ \E h \in Handlers : Return(h)

Spec == Init /\ [][Next]_vars

\* One request at a time (handler 1 alone), with the clock running
NextSeq ==
    \/ \E rq \in SeqRequests : WebhookNoCallSid(1, rq)
    \/ \E rq \in SeqRequests : WebhookStore(1, rq, MaxSeqInputs)
    \/ SelectExisting(1)
    \/ WritePath(1)
    \/ RecomputePath(1)
    \/ Commit(1)
    \/ Return(1)
    \/ Tick
    \/ \E call_df \in CallFrames : RenderDashboard(call_df)
    \/ Rerun

SeqSpec == Init /\ [][NextSeq]_vars

-----------------------------------------------------------------------------
(* The dashboard over a store that five served requests left behind *)

\* One whole update_ivr_path call with no other connection in its way:
\* SELECT, UPDATE or INSERT, recompute, commit
update_ivr_path(tbl, r, ts) ==
    Recompute(Written(tbl, FetchOne(tbl, r.call_sid) # <<>>, r, ts), r.call_sid)

\* Digits a caller of call A may have sent at a step; None: no digits parameter
CodecDigits == {None, <<"1">>, <<"2">>, <<"4">>, <<"7">>}

\* The request of call A at step i carrying digits[i]
StepRequest(digits, i) ==
    [call_sid |-> CallA, step_name |-> StepNames[i], digit_input |-> digits[i],
     from_number |-> Caller, to_number |-> Exophone]

RECURSIVE ServedInputs(_, _)
ServedInputs(digits, n) ==
    IF n = 0 THEN <<>>
    ELSE Append(ServedInputs(digits, n - 1), InputRow(n, StepRequest(digits, n)))

RECURSIVE ServedPaths(_, _)
ServedPaths(digits, n) ==
    IF n = 0 THEN <<>>
    ELSE update_ivr_path(ServedPaths(digits, n - 1), StepRequest(digits, n), 0)

\* The store is empty, or call A went through the five steps in order
InitCodec ==
    /\ \E n \in {0, 5}, digits \in [DOMAIN StepNames -> CodecDigits] :
          /\ n = 0 => digits = [i \in DOMAIN StepNames |-> None]
          /\ ivr_inputs = ServedInputs(digits, n)
          /\ ivr_paths = ServedPaths(digits, n)
    /\ pending = ivr_paths
    /\ lock = 0
    /\ pc = [h \in Handlers |-> "idle"]
    /\ req = [h \in Handlers |-> NoReq]
    /\ existing = [h \in Handlers |-> FALSE]
    /\ resp = [h \in Handlers |-> NoResp]
    /\ now = 0
    /\ dash = NoDash

NextCodec ==
    \/ \E call_df \in CallFrames : RenderDashboard(call_df)
    \/ Rerun

CodecSpec == InitCodec /\ [][NextCodec]_vars

-----------------------------------------------------------------------------
(* The merge over a store whose digits may have been quote characters only *)

\* None: no digits parameter; "": two quote characters, nothing between them
MergeDigits == {None, <<"1">>, <<DQ, DQ>>}

\* The store is empty, or call A went through the five steps in order
InitMerge ==
    /\ \E n \in {0, 5}, digits \in [DOMAIN StepNames -> MergeDigits] :
          /\ n = 0 => digits = [i \in DOMAIN StepNames |-> None]
          /\ ivr_inputs = ServedInputs(digits, n)
          /\ ivr_paths = ServedPaths(digits, n)
    /\ pending = ivr_paths
    /\ lock = 0
    /\ pc = [h \in Handlers |-> "idle"]
    /\ req = [h \in Handlers |-> NoReq]
    /\ existing = [h \in Handlers |-> FALSE]
    /\ resp = [h \in Handlers |-> NoResp]
    /\ now = 0
    /\ dash = NoDash

MergeSpec == InitMerge /\ [][NextCodec]_vars

-----------------------------------------------------------------------------
(* The charts over any frame of rows *)

MaxRows == 3

ChartRow(path, sel) == [CallSid |-> CallA, IVRPath |-> path, IVRSelections |-> sel]

\* Rows a frame may hold: a call without IVR data, a record with every choice
\* unset, records with one, two and three selections, and a record whose
\* language is unset
ChartRows ==
    {ChartRow(None, NoList),
     ChartRow(<<"-", "-", "-", "-">>, <<>>),
     ChartRow(<<"1", "-", "-", "-", "-">>, <<<<"1">>>>),
     ChartRow(<<"1", "-", "1", "-", "-", "-">>, <<<<"1">>, <<"1">>>>),
     ChartRow(<<"2", "-", "1", "-", "1", "-", "-">>, <<<<"2">>, <<"1">>, <<"1">>>>),
     ChartRow(<<"-", "7", "-", "-", "-">>, <<<<"7">>>>)}

ChartFrames == UNION {[1..n -> ChartRows] : n \in 0..MaxRows}

NextChart ==
    \/ \E df \in ChartFrames : RenderCharts(df)
    \/ Rerun

ChartSpec == Init /\ [][NextChart]_vars

-----------------------------------------------------------------------------
(* Two calls whose events arrive interleaved, on concurrent handlers *)

MaxPairInputs == 3

\* Call A at two steps with digit 1, call B at one step with digit 2
PairRequests ==
    Requests({"language", "state"}, {<<CallA, None>>},
             {<<<<"1">>, None>>}, {<<Caller, Exophone, None, None>>})
    \cup
    Requests({"language"}, {<<CallB, None>>},
             {<<<<"2">>, None>>}, {<<Exophone, Caller, None, None>>})

NextPair ==
    \/ \E h \in Handlers, rq \in PairRequests : WebhookStore(h, rq, MaxPairInputs)
    \/ \E h \in Handlers, rq \in PairRequests : WebhookStoreLocked(h, rq)
    \/ \E h \in Handlers : SelectExisting(h)
    \/ \E h \in Handlers : WritePath(h)
    \/ \E h \in Handlers : WritePathIntegrityError(h)
    \/ \E h \in Handlers : WritePathLocked(h)
    \/ \E h \in Handlers : RecomputePath(h)
    \/ \E h \in Handlers : Commit(h)
    \/ \E h \in Handlers : Return(h)

PairSpec == Init /\ [][NextPair]_vars

-----------------------------------------------------------------------------
(* The labels of every service, model and hp digit of the menu tree *)

\* Digits of the service and model menus, an unknown one, and none
LabelDigits == {None, <<"1">>, <<"2">>, <<"3">>, <<"4">>, <<"7">>}
HpDigits == {None, <<"1">>, <<"2">>, <<"7">>}

\* Call A chose Hindi and Rajasthan, then went through service, model and hp
InitLabel ==
    /\ \E service \in LabelDigits, model \in LabelDigits, hp \in HpDigits :
          LET digits == <<<<"1">>, <<"1">>, service, model, hp>>
          IN /\ ivr_inputs = ServedInputs(digits, 5)
             /\ ivr_paths = ServedPaths(digits, 5)
    /\ pending = ivr_paths
    /\ lock = 0
    /\ pc = [h \in Handlers |-> "idle"]
    /\ req = [h \in Handlers |-> NoReq]
    /\ existing = [h \in Handlers |-> FALSE]
    /\ resp = [h \in Handlers |-> NoResp]
    /\ now = 0
    /\ dash = NoDash

LabelSpec == InitLabel /\ [][NextCodec]_vars

-----------------------------------------------------------------------------
(* One call whose events repeat a step, with and without digits, and carry *)
(* different From and To numbers                                           *)

\* Call A at two steps: digit 1 or no digits parameter, the numbers either way
RepeatRequests ==
    Requests({"language", "state"}, {<<CallA, None>>},
             {<<<<"1">>, None>>, <<None, None>>},
             {<<Caller, Exophone, None, None>>, <<Exophone, Caller, None, None>>})

NextRepeat ==
    \/ \E rq \in RepeatRequests : WebhookStore(1, rq, MaxSeqInputs)
    \/ SelectExisting(1)
    \/ WritePath(1)
    \/ RecomputePath(1)
    \/ Commit(1)
    \/ Return(1)

RepeatSpec == Init /\ [][NextRepeat]_vars

-----------------------------------------------------------------------------
(* The path listing over a store of calls created at different times *)

ListCalls == <<CallA, CallB, CallX>>
Stamps == 0..((MaxDay + 1) * DayLen - 1)
Dates == {None} \cup {DateString(day) : day \in 0..MaxDay}

\* The language event of the i-th call
ListRequest(i) ==
    [call_sid |-> ListCalls[i], step_name |-> "language", digit_input |-> <<"1">>,
     from_number |-> Caller, to_number |-> Exophone]

RECURSIVE ListInputs(_)
ListInputs(n) ==
    IF n = 0 THEN <<>>
    ELSE Append(ListInputs(n - 1), InputRow(n, ListRequest(n)))

RECURSIVE ListStore(_, _)
ListStore(stamps, n) ==
    IF n = 0 THEN <<>>
    ELSE update_ivr_path(ListStore(stamps, n - 1), ListRequest(n), stamps[n])

\* The first n calls sent their language event, one after another, at clock
\* readings that never go back
InitList ==
    /\ \E n \in 0..Len(ListCalls), stamps \in [DOMAIN ListCalls -> Stamps] :
          /\ \A i \in DOMAIN ListCalls : i > n => stamps[i] = 0
          /\ \A i, j \in 1..n : i < j => stamps[i] <= stamps[j]
          /\ ivr_inputs = ListInputs(n)
          /\ ivr_paths = ListStore(stamps, n)
          /\ now = IF n = 0 THEN 0 ELSE stamps[n]
    /\ pending = ivr_paths
    /\ lock = 0
    /\ pc = [h \in Handlers |-> "idle"]
    /\ req = [h \in Handlers |-> NoReq]
    /\ existing = [h \in Handlers |-> FALSE]
    /\ resp = [h \in Handlers |-> NoResp]
    /\ dash = NoDash

NextList ==
    \/ \E start_date \in Dates, end_date \in Dates : ListPaths(start_date, end_date)
    \/ Rerun

ListSpec == InitList /\ [][NextList]_vars

-----------------------------------------------------------------------------
(* The statistics over a store of calls that went through two steps *)

StatsLanguages == {None, <<"1">>, <<"2">>}
StatsStates == {None, <<"1">>}

\* The event of the i-th call at step st; None: no digits parameter
StatsRequest(i, st, digit) ==
    [call_sid |-> ListCalls[i], step_name |-> st, digit_input |-> digit,
     from_number |-> Caller, to_number |-> Exophone]

RECURSIVE StatsInputs(_, _, _)
StatsInputs(language, state, n) ==
    IF n = 0 THEN <<>>
    ELSE LET before == StatsInputs(language, state, n - 1)
         IN before \o
            <<InputRow(Len(before) + 1, StatsRequest(n, "language", language[n])),
              InputRow(Len(before) + 2, StatsRequest(n, "state", state[n]))>>

RECURSIVE StatsStore(_, _, _)
StatsStore(language, state, n) ==
    IF n = 0 THEN <<>>
    ELSE update_ivr_path(
             update_ivr_path(StatsStore(language, state, n - 1),
                             StatsRequest(n, "language", language[n]), 0),
             StatsRequest(n, "state", state[n]), 0)

\* The first n calls sent their language and state events, one after another
InitStats ==
    /\ \E n \in 0..Len(ListCalls),
          language \in [DOMAIN ListCalls -> StatsLanguages],
          state \in [DOMAIN ListCalls -> StatsStates] :
          /\ \A i \in DOMAIN ListCalls : i > n => language[i] = None /\ state[i] = None
          /\ ivr_inputs = StatsInputs(language, state, n)
          /\ ivr_paths = StatsStore(language, state, n)
    /\ pending = ivr_paths
    /\ lock = 0
    /\ pc = [h \in Handlers |-> "idle"]
    /\ req = [h \in Handlers |-> NoReq]
    /\ existing = [h \in Handlers |-> FALSE]
    /\ resp = [h \in Handlers |-> NoResp]
    /\ now = 0
    /\ dash = NoDash

NextStats ==
    \/ Stats
    \/ Rerun

StatsSpec == InitStats /\ [][NextStats]_vars

-----------------------------------------------------------------------------
(* The charts over the merged frame of a store left by served requests *)

\* df = ivr_db.merge_with_call_data(df), then the four IVR charts over df
RenderMergedCharts(call_df) == RenderCharts(merge_with_call_data(ivr_paths, call_df))

NextDash ==
    \/ \E call_df \in CallFrames : RenderMergedCharts(call_df)
    \/ Rerun

DashSpec == InitMerge /\ [][NextDash]_vars

-----------------------------------------------------------------------------
(* Claims *)

\* The rows of the raw log that belong to call c
InputsOf(c) == {i \in DOMAIN ivr_inputs : ivr_inputs[i].call_sid = c}

\* The path row of call c (used where there is one)
PathRow(c) == FetchOne(ivr_paths, c)[1]

HasPath(c) == RowsOf(ivr_paths, c) # {}

\* choices joined by '-', a NULL choice as the empty segment
RECURSIVE JoinDash(_)
JoinDash(cs) ==
    IF Len(cs) = 1 THEN Coalesce(cs[1])
    ELSE Coalesce(Head(cs)) \o <<"-">> \o JoinDash(Tail(cs))

\* The digit the raw log holds for call c at a step, None without such a row
LoggedDigit(c, step_name) ==
    IF \E i \in InputsOf(c) : ivr_inputs[i].step_name = step_name
    THEN ivr_inputs[CHOOSE i \in InputsOf(c) :
                        ivr_inputs[i].step_name = step_name].digit_input
    ELSE None

DistinctSteps(c) ==
    \A i, j \in InputsOf(c) :
        i # j => ivr_inputs[i].step_name # ivr_inputs[j].step_name

\* C1: once every event that arrived for a call has been applied, and the
\* events were on distinct steps, complete_path is the join of the events'
\* digits at their fixed positions, empty where no event came: a function of
\* the set of events, whatever order they arrived in.
C1_ArrivalOrderIrrelevant ==
    pc[1] \in {"idle", "done"} =>
        \A c \in {CallA} :
            (InputsOf(c) # {} /\ DistinctSteps(c)) =>
                /\ Cardinality(RowsOf(ivr_paths, c)) = 1
                /\ PathRow(c).complete_path =
                       JoinDash([i \in DOMAIN StepNames |-> LoggedDigit(c, StepNames[i])])

\* Three events arrived in the reverse of the fixed order and were applied.
C1_Witness ==
    /\ pc[1] = "idle"
    /\ Len(ivr_inputs) = 3
    /\ \A i \in 1..3 : ivr_inputs[i].call_sid = CallA
    /\ <<ivr_inputs[1].step_name, ivr_inputs[2].step_name, ivr_inputs[3].step_name>>
           = <<"service", "state", "language">>
    /\ <<ivr_inputs[1].digit_input, ivr_inputs[2].digit_input, ivr_inputs[3].digit_input>>
           = <<<<"1">>, <<"2">>, <<"1">>>>
    /\ PathRow(CallA).complete_path = <<"1", "-", "2", "-", "1", "-", "-">>

\* C2: every committed row of ivr_paths carries the complete_path that its
\* own current choice fields join to.
C2_CommittedPathIsJoin ==
    \A i \in DOMAIN ivr_paths :
        ivr_paths[i].complete_path = JoinDash(Choices(ivr_paths[i]))

\* Inside an open transaction an existing row has its choice updated and its
\* complete_path not yet recomputed.
C2_Witness ==
    \E h \in Handlers :
        /\ pc[h] = "recompute"
        /\ existing[h]
        /\ \E i \in DOMAIN ivr_paths :
              /\ pending[i].call_sid = req[h].call_sid
              /\ pending[i].complete_path # JoinDash(Choices(pending[i]))

SameEvent(a, b) ==
    /\ a.call_sid = b.call_sid
    /\ a.step_name = b.step_name
    /\ a.digit_input = b.digit_input

\* C4: when the event being committed is the same (call_sid, step, digit) as
\* the event applied just before it, the commit leaves every row of ivr_paths
\* (choices, numbers, complete_path, timestamp) as it was.
C4_SecondApplicationChangesNothing ==
    [][(/\ pc[1] = "commit"
        /\ pc'[1] = "done"
        /\ Len(ivr_inputs) >= 2
        /\ SameEvent(ivr_inputs[Len(ivr_inputs)], ivr_inputs[Len(ivr_inputs) - 1]))
       => ivr_paths' = ivr_paths]_vars

\* The same event was applied twice, the second time a second later.
C4_Witness ==
    /\ pc[1] = "done"
    /\ resp[1].status = 200
    /\ Len(ivr_inputs) = 2
    /\ SameEvent(ivr_inputs[2], ivr_inputs[1])
    /\ PathRow(CallA).timestamp < now

\* C3: two requests for one call at different steps of the tree, neither
\* of which gave up waiting for the write lock, both answer 200 and leave a
\* row that holds both digits.
C3_ConcurrentStepsBothApplied ==
    \A g, h \in Handlers :
        (/\ g # h
         /\ pc[g] = "done" /\ pc[h] = "done"
         /\ Truthy(req[g].call_sid) /\ req[g].call_sid = req[h].call_sid
         /\ req[g].step_name \in ValidSteps /\ req[h].step_name \in ValidSteps
         /\ req[g].step_name # req[h].step_name
         /\ resp[g].error # "database is locked"
         /\ resp[h].error # "database is locked")
        => /\ resp[g].status = 200 /\ resp[h].status = 200
           /\ HasPath(req[g].call_sid)
           /\ PathRow(req[g].call_sid)[Column(req[g].step_name)] = Clean(req[g].digit_input)
           /\ PathRow(req[h].call_sid)[Column(req[h].step_name)] = Clean(req[h].digit_input)

\* C5: no row of the raw log and no row of ivr_paths comes from a request
\* whose step is not one of the five, and no such request is answered 200.
C5_InvalidStepPersistsNothing ==
    /\ \A i \in DOMAIN ivr_inputs : ivr_inputs[i].step_name \in ValidSteps
    /\ \A h \in Handlers :
          (pc[h] # "idle" /\ req[h].step_name \notin ValidSteps) =>
              resp[h].status # 200

\* C6: a request whose CallSid is absent or empty in both the query and the
\* form is answered 400 at once, and the step that answers it changes neither
\* ivr_inputs nor ivr_paths; no row of either table has an empty call_sid.
C6_MissingCallSidRejected ==
    [][\A h \in Handlers :
          (pc[h] = "idle" /\ pc'[h] # "idle" /\ ~Truthy(req'[h].call_sid)) =>
              /\ pc'[h] = "done"
              /\ resp'[h].status = 400
              /\ ivr_inputs' = ivr_inputs
              /\ ivr_paths' = ivr_paths
              /\ pending' = pending]_vars

\* A request with an empty CallSid in both places was refused while the store
\* already held rows.
C6_Witness ==
    \E h \in Handlers :
        /\ pc[h] = "done"
        /\ req[h].call_sid = Empty
        /\ resp[h] = ErrorResponse(400, "CallSid is required")
        /\ ivr_inputs # <<>>
        /\ ivr_paths # <<>>

\* The leading segments of a path up to its first empty one
RECURSIVE LeadingRun(_)
LeadingRun(parts) ==
    IF parts = <<>> \/ Head(parts) = Empty THEN <<>>
    ELSE <<Head(parts)>> \o LeadingRun(Tail(parts))

\* C7: the label of a stored path is the label of its leading run of
\* non-empty segments: nothing is decoded at or after the first empty one.
C7_DecodingStopsAtFirstEmpty ==
    \A k \in DOMAIN dash.ivr_data :
        dash.ivr_data[k].Label =
            JoinArrow(LabelTokens(LeadingRun(Split(dash.ivr_data[k].IVRPath, "-"))))

\* C8: after exactly the events language "1", state "1", service "1" of a
\* call, the dashboard shows the path 1-1-1-- with the three-token label.
C8_ThreeStepRoundTrip ==
    (/\ dash.rendered
     /\ pc[1] = "idle"
     /\ Len(ivr_inputs) = 3
     /\ \A i \in 1..3 : ivr_inputs[i].call_sid = CallA /\ ivr_inputs[i].digit_input = <<"1">>
     /\ {ivr_inputs[i].step_name : i \in 1..3} = {"language", "state", "service"})
    => \E k \in DOMAIN dash.ivr_data :
          /\ dash.ivr_data[k].CallSid = CallA
          /\ dash.ivr_data[k].IVRPath = <<"1", "-", "1", "-", "1", "-", "-">>
          /\ dash.ivr_data[k].Label = "Hindi → Rajasthan → Sell Machine"

\* A digit that is a digit and is not a key of the map
Unknown(segment, map) == segment # Empty /\ segment \notin DOMAIN map

\* The map the code reads the model segment with, by the service segment
ModelLabels(service) ==
    IF service = <<"2">> THEN BuyOldLabels
    ELSE IF service = <<"1">> THEN SellLabels
    ELSE IF service = <<"4">> THEN FinanceLabels
    ELSE <<>>

StepLabels(parts) ==
    <<LangLabels, StateLabels, ServiceLabels, ModelLabels(parts[3]), HpLabels>>

StepPrefix == <<"Lang", "State", "Service", "Model", "HP">>

\* Whether get_ivr_label reads position p of the path at all
Interpreted(parts, p) ==
    \/ p <= 3
    \/ p = 4 /\ parts[3] \in {<<"1">>, <<"2">>, <<"4">>}
    \/ p = 5 /\ parts[3] = <<"2">> /\ parts[4] = <<"1">>

\* C9: at every position the decoder reads, an unknown digit shows
\* in the label as the token <step name>-<digit>.
C9_UnknownDigitUsesStepName ==
    \A k \in DOMAIN dash.ivr_data :
        LET parts == Split(dash.ivr_data[k].IVRPath, "-")
            tokens == LabelTokens(parts)
        IN \A p \in 1..5 :
              (Interpreted(parts, p) /\ Unknown(parts[p], StepLabels(parts)[p])) =>
                  \E t \in DOMAIN tokens :
                      tokens[t] = StepPrefix[p] \o "-" \o Str(parts[p])

\* C9, per service: an unknown digit shows as Lang-d, State-d, Service-d at the
\* first three positions; at the model position as Model-d under service 1 or
\* 2, as Finance-d under service 4, and not at all under any other service;
\* at the hp position as HP-d when service is 2 and model is 1, and not at
\* all otherwise.  The known digits of the first three positions keep their
\* labels beside it.
C9_UnknownDigitFallback ==
    \A k \in DOMAIN dash.ivr_data :
        LET parts == Split(dash.ivr_data[k].IVRPath, "-")
            tokens == LabelTokens(parts)
            hpRead == parts[3] = <<"2">> /\ parts[4] = <<"1">>
        IN /\ dash.ivr_data[k].Label = JoinArrow(tokens)
           /\ Len(parts) = 5
           /\ Len(tokens) >= 3
           /\ Unknown(parts[1], LangLabels) => tokens[1] = "Lang-" \o Str(parts[1])
           /\ Unknown(parts[2], StateLabels) => tokens[2] = "State-" \o Str(parts[2])
           /\ Unknown(parts[3], ServiceLabels) => tokens[3] = "Service-" \o Str(parts[3])
           /\ parts[1] \in DOMAIN LangLabels => tokens[1] = LangLabels[parts[1]]
           /\ parts[2] \in DOMAIN StateLabels => tokens[2] = StateLabels[parts[2]]
           /\ parts[3] \in DOMAIN ServiceLabels => tokens[3] = ServiceLabels[parts[3]]
           /\ (parts[3] \in {<<"1">>, <<"2">>} /\ Unknown(parts[4], ModelLabels(parts[3])))
                  => tokens[4] = "Model-" \o Str(parts[4])
           /\ (parts[3] = <<"4">> /\ Unknown(parts[4], FinanceLabels))
                  => tokens[4] = "Finance-" \o Str(parts[4])
           /\ parts[3] \notin {<<"1">>, <<"2">>, <<"4">>} => Len(tokens) = 3
           /\ (hpRead /\ Unknown(parts[5], HpLabels))
                  => tokens[5] = "HP-" \o Str(parts[5])
           /\ ~hpRead => Len(tokens) <= 4

\* The dashboard shows a finance call with the unknown state and model digit 7.
C9_Witness ==
    /\ dash.rendered
    /\ \E k \in DOMAIN dash.ivr_data :
          /\ dash.ivr_data[k].IVRPath = <<"1", "-", "7", "-", "4", "-", "7", "-">>
          /\ dash.ivr_data[k].Label = "Hindi → State-7 → Finance → Finance-7"

\* C10: in the merged frame a call without a path row has IVRSelections None,
\* a call with a path row has a list, and that list is empty when every
\* choice of the row is unset.
C10_AbsentVersusEmpty ==
    dash.rendered =>
        /\ Len(dash.df) = 3
        /\ \A k \in DOMAIN dash.df :
              /\ ~HasPath(dash.df[k].CallSid) => dash.df[k].IVRSelections = NoList
              /\ HasPath(dash.df[k].CallSid) =>
                    /\ dash.df[k].IVRSelections # NoList
                    /\ (\A i \in 1..5 : Choices(PathRow(dash.df[k].CallSid))[i] = None)
                           => dash.df[k].IVRSelections = <<>>

\* One frame holds both: call A with a row of five unset choices, call X
\* with no row.
C10_Witness ==
    /\ dash.rendered
    /\ \E j, k \in DOMAIN dash.df :
          /\ dash.df[j].CallSid = CallA
          /\ dash.df[j].IVRPath = <<"-", "-", "-", "-">>
          /\ dash.df[j].IVRSelections = <<>>
          /\ dash.df[k].CallSid = CallX
          /\ dash.df[k].IVRPath = None
          /\ dash.df[k].IVRSelections = NoList

\* C11: whenever the funnel is drawn, its four values do not increase:
\* Entered IVR >= level 1 >= level 2 >= level 3.
C11_FunnelNonIncreasing ==
    (dash.rendered /\ dash.charts.funnel.kind = "funnel") =>
        LET x == dash.charts.funnel.x
        IN /\ Len(x) = 4
           /\ x[1] >= x[2] /\ x[2] >= x[3] /\ x[3] >= x[4]
           /\ x[1] <= Len(dash.df)

\* A frame with an empty record, a one-selection and a three-selection record.
C11_Witness ==
    /\ dash.rendered
    /\ Len(dash.df) = 3
    /\ dash.charts.funnel.x = <<3, 2, 1, 1>>

\* A frame in which no row has IVR data (the empty frame included)
NoIvrData(df) ==
    \A i \in DOMAIN df : df[i].IVRPath = None /\ df[i].IVRSelections = NoList

\* C12: over a frame that is empty or holds no row with IVR data, each of the
\* four IVR charts is the "No IVR data available" placeholder.
C12_NoIvrDataGivesPlaceholders ==
    (dash.rendered /\ NoIvrData(dash.df)) =>
        /\ dash.charts.flow = Placeholder
        /\ dash.charts.funnel = Placeholder
        /\ dash.charts.first = Placeholder
        /\ dash.charts.completion = Placeholder

\* The charts were drawn over two calls that never reached the IVR.
C12_Witness ==
    /\ dash.rendered
    /\ Len(dash.df) = 2
    /\ NoIvrData(dash.df)
    /\ dash.charts.completion = Placeholder

\* The call ids that requests carry
CallIds == {CallA, CallB}

\* C13: a record of call c appears in ivr_paths only in the step that accepts
\* (commits and answers 200) an event of c; every accepted event leaves a
\* record of its call; a record, once there, stays; and no call ever has two.
C13_RecordIffAccepted ==
    [][/\ \A c \in CallIds :
             /\ Cardinality(RowsOf(ivr_paths', c)) <= 1
             /\ RowsOf(ivr_paths, c) # {} => RowsOf(ivr_paths', c) # {}
             /\ (RowsOf(ivr_paths, c) = {} /\ RowsOf(ivr_paths', c) # {}) =>
                    \E h \in Handlers :
                        /\ pc[h] = "commit" /\ pc'[h] = "done"
                        /\ resp'[h].status = 200
                        /\ req[h].call_sid = c
       /\ \A i \in DOMAIN ivr_paths' : ivr_paths'[i].call_sid \in CallIds
       /\ \A h \in Handlers :
             (pc'[h] = "done" /\ resp'[h].status = 200) =>
                 RowsOf(ivr_paths', req'[h].call_sid) # {}]_vars

\* Call A has its record from an accepted event; call B's only event was
\* logged and then refused for the write lock, and B has no record.
C13_Witness ==
    /\ HasPath(CallA)
    /\ ~HasPath(CallB)
    /\ \E i \in DOMAIN ivr_inputs : ivr_inputs[i].call_sid = CallB
    /\ \E h \in Handlers :
          /\ pc[h] = "done"
          /\ req[h].call_sid = CallB
          /\ resp[h].status = 500

\* A handler that is serving, or has just answered 200 to, the event of a raw row
Serving(h, row) ==
    /\ req[h].call_sid = row.call_sid
    /\ req[h].step_name = row.step_name
    /\ \/ pc[h] \in {"select", "write", "recompute", "commit"}
       \/ pc[h] = "done" /\ resp[h].status = 200

\* C14: a request that fails leaves nothing behind, so every row of the raw
\* log belongs to an event that is being served or was applied: its call has
\* a record, and for a step of the tree the record holds the row's digit.
C14_FailureLeavesNoRawRow ==
    \A i \in DOMAIN ivr_inputs :
        \/ \E h \in Handlers : Serving(h, ivr_inputs[i])
        \/ /\ HasPath(ivr_inputs[i].call_sid)
           /\ ivr_inputs[i].step_name \in ValidSteps =>
                  PathRow(ivr_inputs[i].call_sid)[Column(ivr_inputs[i].step_name)]
                      = ivr_inputs[i].digit_input

\* C15: the write of update_ivr_path, INSERT or UPDATE, leaves the record of
\* its call stamped with the time of that write.
C15_WriteStampsRecord ==
    [][(pc[1] = "write" /\ pc'[1] = "recompute") =>
          \A i \in RowsOf(pending', req[1].call_sid) : pending'[i].timestamp = now]_vars

\* C16: the merged frame has one row per call record, in the call log's
\* order, and the row of a call without a path record has IVRPath and
\* IVRSelections None, whether the path store is empty or not.
C16_OneRowPerCallRecord ==
    dash.rendered =>
        \E call_df \in CallFrames :
            /\ Len(dash.df) = Len(call_df)
            /\ \A k \in DOMAIN call_df :
                  /\ dash.df[k].CallSid = call_df[k]
                  /\ ~HasPath(call_df[k]) =>
                         /\ dash.df[k].IVRPath = None
                         /\ dash.df[k].IVRSelections = NoList

\* The store holds a record of call A with a digit; calls X and B of the
\* call log have none and still appear.
C16_Witness ==
    /\ dash.rendered
    /\ ivr_paths # <<>>
    /\ dash.df[1].CallSid = CallA
    /\ dash.df[1].IVRSelections = <<<<"1">>, <<"2">>>>
    /\ dash.df[2] = Unmatched(CallX)
    /\ dash.df[3] = Unmatched(CallB)

\* C17: a request for a step of the tree that is answered 200 echoes, in the
\* response's digit field, the value its record holds for that step.
C17_EchoIsRecordedDigit ==
    \A h \in Handlers :
        (pc[h] = "done" /\ resp[h].status = 200 /\ req[h].step_name \in ValidSteps) =>
            /\ HasPath(req[h].call_sid)
            /\ resp[h].digit = PathRow(req[h].call_sid)[Column(req[h].step_name)]

\* The records of call c alone
Own(tbl, c) == SelectSeq(tbl, LAMBDA r : r.call_sid = c)

\* A record without its row number
Fields(row) == [row EXCEPT !.id = 0]

\* C18: the commit of an event of call c leaves every record of another call
\* as it was, and the record of c it leaves is, row number aside, the one
\* update_ivr_path gives on a store that holds the records of c alone; no
\* other step changes ivr_paths.  So the final record of each call is the
\* same for every interleaving with the events of another call.
C18_OtherCallsUntouched ==
    [][/\ \A i \in DOMAIN ivr_paths :
             (\A h \in Handlers :
                 ~(pc[h] = "commit" /\ pc'[h] = "done"
                   /\ req[h].call_sid = ivr_paths[i].call_sid))
             => /\ i \in DOMAIN ivr_paths'
                /\ ivr_paths'[i] = ivr_paths[i]
       /\ \A h \in Handlers :
             (pc[h] = "commit" /\ pc'[h] = "done") =>
                 /\ Len(ivr_paths') <= Len(ivr_paths) + 1
                 /\ Fields(FetchOne(ivr_paths', req[h].call_sid)[1]) =
                        Fields(FetchOne(update_ivr_path(Own(ivr_paths, req[h].call_sid),
                                                        req[h], now),
                                        req[h].call_sid)[1])]_vars

\* Call A's second event was just applied while call B's record was in the
\* store, inserted between A's two events.
C18_Witness ==
    /\ Len(ivr_paths) = 2
    /\ ivr_paths[1].call_sid = CallA
    /\ ivr_paths[1].complete_path = <<"1", "-", "1", "-", "-", "-">>
    /\ ivr_paths[2].call_sid = CallB
    /\ ivr_paths[2].complete_path = <<"2", "-", "-", "-", "-">>
    /\ \E h \in Handlers :
          pc[h] = "done" /\ resp[h].status = 200 /\ req[h].call_sid = CallA

\* The digit of the last row the raw log holds for call c at a step, None
\* without such a row
LastLoggedDigit(c, step_name) ==
    LET rows == {i \in InputsOf(c) : ivr_inputs[i].step_name = step_name}
    IN IF rows = {} THEN None
       ELSE ivr_inputs[CHOOSE i \in rows : \A j \in rows : j <= i].digit_input

\* C19: between requests, each choice of a call's record is the cleaned digit
\* of the last event that arrived for that step, and is unset when no event
\* for that step arrived: repeated events on one step overwrite that step
\* alone.
C19_LastArrivedDigitWins ==
    (pc[1] \in {"idle", "done"} /\ HasPath(CallA)) =>
        \A i \in DOMAIN StepNames :
            PathRow(CallA)[Column(StepNames[i])] = LastLoggedDigit(CallA, StepNames[i])

\* language 1, then state, then language again with the quoted digit 2.
C19_Witness ==
    /\ pc[1] = "idle"
    /\ Len(ivr_inputs) = 3
    /\ <<ivr_inputs[1].step_name, ivr_inputs[2].step_name, ivr_inputs[3].step_name>>
           = <<"language", "state", "language">>
    /\ <<ivr_inputs[1].digit_input, ivr_inputs[2].digit_input, ivr_inputs[3].digit_input>>
           = <<<<"1">>, <<"1">>, <<"2">>>>
    /\ PathRow(CallA).language_choice = <<"2">>
    /\ PathRow(CallA).state_choice = <<"1">>
    /\ PathRow(CallA).service_choice = None

\* The choices that hold a digit: neither unset nor the empty string
RECURSIVE NonEmpty(_)
NonEmpty(cs) ==
    IF cs = <<>> THEN <<>>
    ELSE IF Truthy(Head(cs)) THEN <<Head(cs)>> \o NonEmpty(Tail(cs))
    ELSE NonEmpty(Tail(cs))

\* C20: for a call with a path record, IVRSelections is the sequence of the
\* record's non-empty choices in step order; a choice stored as the empty
\* string is left out like an unset one.
C20_SelectionsAreNonEmptyChoices ==
    dash.rendered =>
        \A k \in DOMAIN dash.df :
            HasPath(dash.df[k].CallSid) =>
                dash.df[k].IVRSelections = NonEmpty(Choices(PathRow(dash.df[k].CallSid)))

\* The merged rows whose record has language choice v
WithLanguage(df, v) ==
    {k \in DOMAIN df :
        HasPath(df[k].CallSid) /\ PathRow(df[k].CallSid).language_choice = v}

\* C21: every slice of the first-option pie counts the records whose
\* language choice is the slice's digit; a record with language unset adds
\* to no slice.
C21_PieGroupsByLanguage ==
    (dash.rendered /\ dash.charts.first.kind = "pie") =>
        LET pie == dash.charts.first
        IN \A i \in DOMAIN pie.y :
              \E v \in MergeDigits \ {None} :
                  /\ pie.y[i] = OptionLabel(v)
                  /\ pie.x[i] = Cardinality(WithLanguage(dash.df, v))

\* C22: the completion chart counts a row as Completed IVR when it has two
\* or more non-empty choices, as Dropped Early when it has exactly one, and
\* as No IVR Interaction when it has no selections value or an empty one;
\* the three counts add up to the number of rows.
C22_ThreeBuckets ==
    (dash.rendered /\ dash.charts.completion.kind = "bar") =>
        LET x == dash.charts.completion.x
            df == dash.df
            chosen(k) == IF df[k].IVRSelections = NoList THEN 0
                         ELSE Len(NonEmpty(df[k].IVRSelections))
        IN /\ x[1] = Cardinality({k \in DOMAIN df : chosen(k) >= 2})
           /\ x[2] = Cardinality({k \in DOMAIN df : chosen(k) = 1})
           /\ x[3] = Cardinality({k \in DOMAIN df : chosen(k) = 0})
           /\ x[1] + x[2] + x[3] = Len(df)

\* C23: the label of a path ends with an hp token exactly when its service
\* segment is 2 (Buy Old) and its model segment is 1; under every other
\* service and model the label is the label of the first four segments,
\* whatever the hp segment holds.
C23_HpOnlyUnderBuyOldModel1 ==
    \A k \in DOMAIN dash.ivr_data :
        LET parts == Split(dash.ivr_data[k].IVRPath, "-")
            upToModel == LabelTokens(SubSeq(parts, 1, 4))
            hp == IF parts[5] = <<"1">> THEN "49 HP"
                  ELSE IF parts[5] = <<"2">> THEN "74 HP"
                  ELSE "HP-" \o Str(parts[5])
        IN /\ Len(parts) = 5
           /\ dash.ivr_data[k].Label =
                 JoinArrow(upToModel \o
                     (IF parts[3] = <<"2">> /\ parts[4] = <<"1">> THEN <<hp>> ELSE <<>>))

\* The dashboard shows a Sell call of model 1 with hp digit 2 and no hp token,
\* or a Buy Old call of model 2 with hp digit 1 and no hp token.
C23_Witness ==
    /\ dash.rendered
    /\ \E k \in DOMAIN dash.ivr_data :
          \/ /\ dash.ivr_data[k].IVRPath = <<"1", "-", "1", "-", "1", "-", "1", "-", "2">>
             /\ dash.ivr_data[k].Label = "Hindi → Rajasthan → Sell Machine → Before 2014"
          \/ /\ dash.ivr_data[k].IVRPath = <<"1", "-", "1", "-", "2", "-", "2", "-", "1">>
             /\ dash.ivr_data[k].Label = "Hindi → Rajasthan → Buy Old → 2018-2020"

\* The year bands of the model menu, newest first
VintageBands == <<"2020+", "2018-2020", "2015-2017", "Before 2014">>
FinanceKinds == <<"Refinance", "New Finance">>
MenuDigits == <<<<"1">>, <<"2">>, <<"3">>, <<"4">>>>

\* C24: the token of a non-empty model segment comes from the table of the
\* service segment: under Buy Old (2) the digits 1..4 give the year bands
\* newest first, under Sell (1) the same bands oldest first, under Finance
\* (4) the digits 1, 2 give Refinance, New Finance; under any other service
\* the label has no model token.
C24_ModelTableByService ==
    \A k \in DOMAIN dash.ivr_data :
        LET parts == Split(dash.ivr_data[k].IVRPath, "-")
            tokens == LabelTokens(parts)
        IN (Len(parts) >= 4 /\ parts[4] # Empty) =>
              /\ dash.ivr_data[k].Label = JoinArrow(tokens)
              /\ \A d \in 1..4 :
                    (parts[3] = <<"2">> /\ parts[4] = MenuDigits[d])
                        => tokens[4] = VintageBands[d]
              /\ \A d \in 1..4 :
                    (parts[3] = <<"1">> /\ parts[4] = MenuDigits[d])
                        => tokens[4] = VintageBands[5 - d]
              /\ \A d \in 1..2 :
                    (parts[3] = <<"4">> /\ parts[4] = MenuDigits[d])
                        => tokens[4] = FinanceKinds[d]
              /\ parts[3] \notin {<<"1">>, <<"2">>, <<"4">>} => Len(tokens) = 3

\* The dashboard shows a Sell call of model 3 as the band 2018-2020.
C24_Witness ==
    /\ dash.rendered
    /\ \E k \in DOMAIN dash.ivr_data :
          /\ dash.ivr_data[k].IVRPath = <<"1", "-", "1", "-", "1", "-", "3", "-">>
          /\ dash.ivr_data[k].Label = "Hindi → Rajasthan → Sell Machine → 2018-2020"

\* The first row of the raw log that belongs to call c
FirstInput(c) == ivr_inputs[CHOOSE i \in InputsOf(c) : \A j \in InputsOf(c) : i <= j]

\* C25: the from_number and to_number of a path record are those of the
\* first accepted event of its call, whatever From and To later events carry.
C25_NumbersFixedByFirstEvent ==
    \A i \in DOMAIN ivr_paths :
        /\ InputsOf(ivr_paths[i].call_sid) # {}
        /\ ivr_paths[i].from_number = FirstInput(ivr_paths[i].call_sid).from_number
        /\ ivr_paths[i].to_number = FirstInput(ivr_paths[i].call_sid).to_number

\* A second event of call A with From and To swapped has been applied to the
\* record, which still holds the numbers of the first.
C25_Witness ==
    /\ pc[1] = "done" /\ resp[1].status = 200 /\ existing[1]
    /\ Len(ivr_inputs) = 2
    /\ ivr_inputs[1].from_number = Caller /\ ivr_inputs[1].to_number = Exophone
    /\ ivr_inputs[2].from_number = Exophone /\ ivr_inputs[2].to_number = Caller
    /\ HasPath(CallA)
    /\ PathRow(CallA).from_number = Caller /\ PathRow(CallA).to_number = Exophone
    /\ PathRow(CallA).state_choice = <<"1">>

\* C28: a choice that holds a non-empty digit holds one after every step;
\* no event resets it to unset.
C28_SetChoiceStaysSet ==
    [][\A i \in DOMAIN ivr_paths :
          /\ i \in DOMAIN ivr_paths'
          /\ \A st \in ValidSteps :
                Truthy(ivr_paths[i][Column(st)]) => Truthy(ivr_paths'[i][Column(st)])]_vars

\* The day number a record was stamped on, and the day number of a date
\* parameter (None: no bound)
DayOf(row) == row.timestamp \div DayLen
Within(row, start_date, end_date) ==
    /\ \A day \in 0..MaxDay : start_date = DateString(day) => day <= DayOf(row)
    /\ \A day \in 0..MaxDay : end_date = DateString(day) => DayOf(row) <= day

\* Whether a listing is ordered newest first
NewestFirst(rows) ==
    \A j, k \in DOMAIN rows : j < k => rows[j].timestamp >= rows[k].timestamp

\* The set of rows of a listing
RowSet(rows) == {rows[k] : k \in DOMAIN rows}

\* C26: with start_date and end_date, both path listings return exactly the
\* records stamped on a day from start_date to end_date, both inclusive,
\* newest first, and so the same set.
C26_ListingByDate ==
    dash.rendered =>
        LET expected == {ivr_paths[i] : i \in
                            {j \in DOMAIN ivr_paths :
                                Within(ivr_paths[j], dash.start_date, dash.end_date)}}
        IN /\ RowSet(dash.database) = expected
           /\ RowSet(dash.endpoint.data) = expected
           /\ NewestFirst(dash.database)
           /\ NewestFirst(dash.endpoint.data)

\* The number of records whose complete path is path
WithCompletePath(path) ==
    Cardinality({i \in DOMAIN ivr_paths : ivr_paths[i].complete_path = path})

\* Whether groups (a set of <<path, count>>) are top groups of the store: each
\* a path with its number of records, at most ten, none left out that has
\* more records than one that is in
TopGroups(groups) ==
    /\ \A g \in groups : g[2] > 0 /\ g[2] = WithCompletePath(g[1])
    /\ Cardinality(groups) <= 10
    /\ \A i \in DOMAIN ivr_paths :
          \/ \E g \in groups : g[1] = ivr_paths[i].complete_path
          \/ /\ Cardinality(groups) = 10
             /\ \A g \in groups : g[2] >= WithCompletePath(ivr_paths[i].complete_path)

\* C27: the top paths of both statistics are the groups of the records by
\* complete path with their counts, largest count first, at most ten, and
\* both return the same groups, the group of the records with every choice
\* unset included.
C27_TopPathsAgree ==
    dash.rendered =>
        LET db == dash.database.top_paths
            api == dash.endpoint.top_paths
            dbGroups == {db[k] : k \in DOMAIN db}
            apiGroups == {<<api[k].path, api[k].count>> : k \in DOMAIN api}
        IN /\ TopGroups(dbGroups)
           /\ TopGroups(apiGroups)
           /\ dbGroups = apiGroups
           /\ \A j, k \in DOMAIN db : j < k => db[j][2] >= db[k][2]
           /\ \A j, k \in DOMAIN api : j < k => api[j].count >= api[k].count

\* C29: in every row of the merged frame the path is absent exactly when the
\* selections are absent, so the filter on IVRPath and the filter on
\* IVRSelections keep the same rows.
C29_PathAbsentIffSelectionsAbsent ==
    dash.rendered =>
        /\ \A k \in DOMAIN dash.df :
              (dash.df[k].IVRPath = None) <=> (dash.df[k].IVRSelections = NoList)
        /\ WithPath(dash.df) = WithSelections(dash.df)

\* The dashboard ran while the second event of call A was being written: the
\* frame has the row of call A with path and selections, and the rows of the
\* calls without a record with neither.
C29_Witness ==
    /\ dash.rendered
    /\ pc[1] = "commit"
    /\ HasPath(CallA)
    /\ \E k \in DOMAIN dash.df :
          /\ dash.df[k].CallSid = CallA
          /\ dash.df[k].IVRPath # None
          /\ dash.df[k].IVRSelections # NoList
    /\ \E k \in DOMAIN dash.df :
          /\ dash.df[k].CallSid = CallX
          /\ dash.df[k].IVRPath = None
          /\ dash.df[k].IVRSelections = NoList

\* C30: when no request is being served, the call ids of the raw log are the
\* call ids of the path records, and total_calls is the number of path
\* records.
C30_LoggedCallsHaveRecords ==
    (\A h \in Handlers : pc[h] \in {"idle", "done"}) =>
        /\ {ivr_inputs[i].call_sid : i \in DOMAIN ivr_inputs}
              = {ivr_paths[i].call_sid : i \in DOMAIN ivr_paths}
        /\ TotalCalls(ivr_inputs) = Len(ivr_paths)


====
